---- MODULE Spec2Model ----
(***************************************************************************)
(* A model of the gox CodeBuilder (codebuild.go): the operand stack, the   *)
(* nested block / function-body contexts with their scopes and statement   *)
(* lists, and the construction operations that consume and produce         *)
(* operands and append statements.                                         *)
(*                                                                         *)
(* A Go panic is modelled as a failed operation: the action records the    *)
(* failure kind in last.err and leaves the builder in the state the code   *)
(* had reached when it panicked.                                           *)
(***************************************************************************)
EXTENDS Integers, Sequences, FiniteSets, TLC

VARIABLES
    stk,      \* CodeBuilder.stk: the operand stack, a sequence of Elem
    current,  \* CodeBuilder.current: the funcBodyCtx of the open block
    saved,    \* the `old` contexts the callers of start... hold, oldest first
    scopes,   \* every types.Scope created so far, indexed by identity
    autovars, \* the *AutoVar objects NewAutoVar has handed out (by name)
    nstmt,    \* number of statement nodes allocated so far (node identity)
    entered,  \* history: what the builder looked like at each open enter
    owner,    \* history: statement id -> scope of the block that emitted it
    budget,   \* the size the builder is explored up to
    inf,      \* a call of infer (typesinfer_go123.go): where it is, the error
              \* record, the results and the diagnostics the oracle gave
    ovl,      \* a call of overloadFuncs (import.go): its arguments and result
    auto,     \* an autoNames (import.go): names, idx and what RequireName returned
    context,  \* a Context (import.go): the import graph, chkGopImports, the
              \* calls of InitGopPkg under way and the packages initialized
    last      \* history: the operation that produced this state, what it
              \* started from and what it returned

vars ==
    <<stk, current, saved, scopes, autovars, nstmt, entered, owner, budget, inf, ovl, auto,
      context, last>>

ImportVars == <<ovl, auto, context>>

\* ---------------------------------------------------------------- bounds

\* The builder is explored while its size stays within a budget: the operands
\* on the stack, the nesting of their expressions, the statement nodes
\* allocated and the scopes created after the package scope all count.
MaxSize == 4        \* budget of Spec and SpecMisuse
MaxOpsSize == 2     \* budget of SpecOps
MaxAssignSize == 4  \* budget of SpecAssign
MaxExprSize == 3    \* budget of SpecExpr
MaxLitSize == 3     \* budget of SpecLits
MaxDiags == 3       \* budget of SpecInfer: diagnostics of one inference
MaxItems == 3       \* budget of SpecOverload: items of one overloaded function
MaxInits == 2       \* budget of SpecImport: calls of InitGopPkg made on one Context
MaxCalls == 3       \* budget of SpecNames: calls of RequireName on one autoNames

\* ---------------------------------------------------------------- helpers

Max(a, b) == IF a >= b THEN a ELSE b
Min(a, b) == IF a <= b THEN a ELSE b
Last(s) == s[Len(s)]
Front(s) == SubSeq(s, 1, Len(s) - 1)
Range(s) == {s[i] : i \in DOMAIN s}

\* ---------------------------------------------------------------- types

Basic(n) == [k |-> "Basic", name |-> n]
TInt == Basic("int")
TString == Basic("string")
TFloat64 == Basic("float64")
TUntypedInt == Basic("untyped int")
TUntypedFloat == Basic("untyped float")
TUntypedString == Basic("untyped string")
TyEmptyInterface == [k |-> "Interface"]
NilType == [k |-> "nil"]
NoValue == [k |-> "novalue"]
Tuple(es) == [k |-> "Tuple", elems |-> es]
Var(n, t) == [name |-> n, type |-> t]
Signature(recv, ps, rs, v) ==
    [k |-> "Signature", recv |-> recv, params |-> ps, results |-> rs, variadic |-> v]
refType(t) == [k |-> "refType", typ |-> t]
UnboundType == [k |-> "unbound"]
MapType(kt, vt) == [k |-> "Map", key |-> kt, elem |-> vt]
SliceType(et) == [k |-> "Slice", elem |-> et]
ArrayType(et, n) == [k |-> "Array", elem |-> et, len |-> n]
Pointer(et) == [k |-> "Pointer", elem |-> et]
Field(n, t) == [name |-> n, type |-> t]
Struct(fs) == [k |-> "Struct", fields |-> fs]
Named(n, ms, u) == [k |-> "Named", name |-> n, methods |-> ms, underlying |-> u]

IsUntyped(t) == t.k = "Basic" /\ t.name \in {"untyped int", "untyped float", "untyped string"}

\* types.Default: the default type of an untyped constant type
Default(t) ==
    IF t = TUntypedInt THEN TInt
    ELSE IF t = TUntypedFloat THEN TFloat64
    ELSE IF t = TUntypedString THEN TString
    ELSE t

\* AssignableTo(V, T): the oracle's assignability test
AssignableTo(V, T) ==
    \/ V = T
    \/ T = TyEmptyInterface /\ V.k \notin {"nil", "novalue", "Tuple", "refType", "unbound"}
    \/ V = TUntypedInt /\ T \in {TInt, TFloat64}
    \/ V = TUntypedFloat /\ T = TFloat64
    \/ V = TUntypedString /\ T = TString

\* ---------------------------------------------------------------- syntax nodes

Ident(n) == [k |-> "Ident", name |-> n]
BasicLit(v) == [k |-> "BasicLit", value |-> v]
underscore == Ident("_")
SelectorExpr(x, sel) == [k |-> "SelectorExpr", x |-> x, sel |-> sel]
CallExpr(fun, args, ell) == [k |-> "CallExpr", fun |-> fun, args |-> args, ellipsis |-> ell]
KeyValueExpr(key, val) == [k |-> "KeyValueExpr", key |-> key, value |-> val]
CompositeLit(t, elts) == [k |-> "CompositeLit", type |-> t, elts |-> elts]

Elem(v, t) == [Val |-> v, Type |-> t]

AssignStmt(id, lhs, rhs) == [id |-> id, k |-> "AssignStmt", lhs |-> lhs, rhs |-> rhs]
ReturnStmt(id, results) == [id |-> id, k |-> "ReturnStmt", results |-> results]
ExprStmt(id, x) == [id |-> id, k |-> "ExprStmt", x |-> x]
DeclStmt(id, name) == [id |-> id, k |-> "DeclStmt", name |-> name]

\* ---------------------------------------------------------------- operand stack

Underflow(n) == n > Len(stk)
GetArgs(n) == SubSeq(stk, Len(stk) - n + 1, Len(stk))
Get(idx) == stk[Len(stk) + idx + 1]
Push(e) == Append(stk, e)
PopN(n) == SubSeq(stk, 1, Len(stk) - n)
Ret(n, e) == Append(SubSeq(stk, 1, Len(stk) - n), e)
SetLen(n) == SubSeq(stk, 1, n)

\* ---------------------------------------------------------------- results of an operation

\* An operation ends by panicking (err names the failure) or by returning;
\* either way it leaves an operand stack and a statement list behind.
Result(e, s, st) == [err |-> e, stk |-> s, stmts |-> st]
Fail(e) == Result(e, stk, current.stmts)
Done(s, st) == Result("none", s, st)

\* ---------------------------------------------------------------- collaborators

\* toExpr: the operand a Go value given to Val stands for
toExpr(v) ==
    IF v.kind = "int" THEN Elem(BasicLit(v.lit), TUntypedInt)
    ELSE IF v.kind = "float" THEN Elem(BasicLit(v.lit), TUntypedFloat)
    ELSE IF v.kind = "string" THEN Elem(BasicLit(v.lit), TUntypedString)
    ELSE Elem(Ident(v.name), v.type)

\* assignMatchType: may a value of type val be assigned to the target varRef
assignMatchType(varRef, val) ==
    IF varRef.k = "refType"
    THEN varRef.typ = UnboundType \/ AssignableTo(val, varRef.typ)
    ELSE varRef = NilType

\* the parameter type argument i of n is matched against
ParamTypeAt(sig, i) ==
    IF sig.variadic /\ i >= Len(sig.params) THEN Last(sig.params).type.elem
    ELSE sig.params[i].type

matchFuncArgs(sig, args, ellipsis) ==
    IF ellipsis
    THEN /\ sig.variadic
         /\ Len(args) = Len(sig.params)
         /\ \A i \in 1..Len(args) : AssignableTo(args[i].Type, sig.params[i].type)
    ELSE /\ IF sig.variadic THEN Len(args) >= Len(sig.params) - 1
                            ELSE Len(args) = Len(sig.params)
         /\ \A i \in 1..Len(args) : AssignableTo(args[i].Type, ParamTypeAt(sig, i))

funcResultType(sig) ==
    IF Len(sig.results) = 0 THEN NoValue
    ELSE IF Len(sig.results) = 1 THEN sig.results[1].type
    ELSE Tuple(sig.results)

\* toFuncCall: [err, elem], the typed call of fn on args
toFuncCall(fn, args, ellipsis) ==
    IF fn.Type.k # "Signature" THEN [err |-> "NotCallable", elem |-> fn]
    ELSE IF ~matchFuncArgs(fn.Type, args, ellipsis) THEN [err |-> "NotAssignable", elem |-> fn]
    ELSE [err |-> "none",
          elem |-> Elem(CallExpr(fn.Val, [i \in 1..Len(args) |-> args[i].Val], ellipsis),
                        funcResultType(fn.Type))]

\* checkMatchFuncResults: do the operands match the declared results
checkMatchFuncResults(args, results) ==
    /\ Len(args) = Len(results)
    /\ \A i \in 1..Len(args) : AssignableTo(args[i].Type, results[i].type)

\* the positions base, base+step, ... below max (0-based, as in the source)
ElementPositions(base, max, step) ==
    {i \in 1..max : i - 1 >= base /\ (i - 1 - base) % step = 0}

UntypedRank(t) ==
    IF t = TUntypedInt THEN 1 ELSE IF t = TUntypedFloat THEN 2 ELSE 3

\* boundElementType: [err, type], the bound type of the operands at the positions
boundElementType(args, base, max, step) ==
    LET pos == ElementPositions(base, max, step)
        ts == {args[i].Type : i \in pos}
    IN  IF \E t \in ts : t.k \in {"nil", "novalue", "refType", "unbound"}
        THEN [err |-> "MismatchedElementTypes", type |-> NilType]
        ELSE IF Cardinality(ts) = 1
        THEN [err |-> "none", type |-> CHOOSE t \in ts : TRUE]
        ELSE IF /\ \A t \in ts : IsUntyped(t)
                /\ \A t \in ts : t # TUntypedString
        THEN [err |-> "none",
              type |-> CHOOSE t \in ts : \A u \in ts : UntypedRank(u) <= UntypedRank(t)]
        ELSE [err |-> "MismatchedElementTypes", type |-> NilType]

\* ---------------------------------------------------------------- operators

opPrefix == "Gop_"

binaryOps(op) ==
    CASE op = "ADD" -> "Add" [] op = "SUB" -> "Sub" [] op = "MUL" -> "Mul"
      [] op = "QUO" -> "Quo" [] op = "REM" -> "Rem" [] op = "AND" -> "And"
      [] op = "OR" -> "Or" [] op = "XOR" -> "Xor" [] op = "AND_NOT" -> "AndNot"
      [] op = "SHL" -> "Lsh" [] op = "SHR" -> "Rsh" [] op = "LSS" -> "LT"
      [] op = "LEQ" -> "LE" [] op = "GTR" -> "GT" [] op = "GEQ" -> "GE"
      [] op = "EQL" -> "EQ" [] op = "NEQ" -> "NE"
      [] OTHER -> ""

unaryOps(op) ==
    CASE op = "SUB" -> "Neg" [] op = "XOR" -> "Not" [] OTHER -> ""

\* tokens whose value lies past the end of the binaryOps / unaryOps array
BinaryOutOfRange == {"DEFINE", "ELLIPSIS"}
UnaryOutOfRange == {"NOT", "NEQ", "DEFINE", "ELLIPSIS", "SHL", "LAND"}

\* the builtin scope: the operator callables the package registers
BuiltinScope ==
    [Gop_Add |-> Signature(NilType, <<Var("a", TInt), Var("b", TInt)>>, <<Var("", TInt)>>, FALSE),
     Gop_Neg |-> Signature(NilType, <<Var("a", TInt)>>, <<Var("", TInt)>>, FALSE)]

\* pkg.builtin.Scope().Lookup(prefix + name): [found, obj]
LookupOperator(name) ==
    IF name = "Add" THEN [found |-> TRUE, obj |-> Elem(Ident("Gop_Add"), BuiltinScope.Gop_Add)]
    ELSE IF name = "Neg" THEN [found |-> TRUE, obj |-> Elem(Ident("Gop_Neg"), BuiltinScope.Gop_Neg)]
    ELSE [found |-> FALSE, obj |-> Elem(Ident(name), NilType)]

\* ---------------------------------------------------------------- construction operations
\* Each operator is one CodeBuilder method: the Result it ends with, computed
\* from the stack and the current block as the method's code computes it.

NewStmtId == nstmt + 1

\* Val (codebuild.go 313-323)
ValOp(v) == Done(Push(toExpr(v)), current.stmts)

\* VarRef (codebuild.go 171-202)
VarRefOp(ref) ==
    IF ref.kind = "nil" THEN Done(Push(Elem(underscore, NilType)), current.stmts)
    ELSE IF ref.kind = "AutoVar"
    THEN Done(Push(Elem(Ident(ref.name), refType(ref.type))), current.stmts)
    ELSE IF ref.kind = "Var"
    THEN Done(Push(Elem(Ident(ref.name), refType(ref.type))), current.stmts)
    ELSE Fail("UnexpectedRef")

\* NewAutoVar (codebuild.go 155-168)
NewAutoVarOp(name) == Done(stk, Append(current.stmts, DeclStmt(NewStmtId, name)))

MapElts(args, arity) ==
    [j \in 1..(arity \div 2) |-> KeyValueExpr(args[2 * j - 1].Val, args[2 * j].Val)]

\* MapLit whose default type has the empty interface as its key type
MapLitOp_InterfaceKey(t, arity) ==
    IF arity = 0
    THEN LET t0 == IF t = NilType THEN MapType(TyEmptyInterface, TyEmptyInterface) ELSE t
         IN  Done(Push(Elem(CompositeLit(t0, <<>>), t0)), current.stmts)
    ELSE IF arity % 2 # 0 THEN Fail("InvalidArity")
    ELSE IF Underflow(arity) THEN Fail("StackUnderflow")
    ELSE LET args == GetArgs(arity)
             check == t # NilType
             bkey == boundElementType(args, 0, arity, 2)
             bval == boundElementType(args, 1, arity, 2)
         IN  IF ~check /\ bkey.err # "none" THEN Fail(bkey.err)
             ELSE IF ~check /\ bval.err # "none" THEN Fail(bval.err)
             ELSE LET key == IF check THEN t.key ELSE bkey.type
                      val == IF check THEN t.elem ELSE bval.type
                      t1 == IF check THEN t ELSE MapType(Default(key), Default(val))
                  IN  IF check /\ \E j \in 1..(arity \div 2) :
                                     \/ ~AssignableTo(args[2 * j - 1].Type, key)
                                     \/ ~AssignableTo(args[2 * j].Type, val)
                      THEN Fail("NotAssignable")
                      ELSE Done(Ret(arity, Elem(CompositeLit(t1, MapElts(args, arity)), t1)),
                                current.stmts)

\* MapLit (codebuild.go 205-245)
MapLitOp(t, arity) ==
    IF arity = 0
    THEN LET t0 == IF t = NilType THEN MapType(TString, TyEmptyInterface) ELSE t
         IN  Done(Push(Elem(CompositeLit(t0, <<>>), t0)), current.stmts)
    ELSE IF arity % 2 # 0 THEN Fail("InvalidArity")
    ELSE IF Underflow(arity) THEN Fail("StackUnderflow")
    ELSE LET args == GetArgs(arity)
             check == t # NilType
             bkey == boundElementType(args, 0, arity, 2)
             bval == boundElementType(args, 1, arity, 2)
         IN  IF ~check /\ bkey.err # "none" THEN Fail(bkey.err)
             ELSE IF ~check /\ bval.err # "none" THEN Fail(bval.err)
             ELSE LET key == IF check THEN t.key ELSE bkey.type
                      val == IF check THEN t.elem ELSE bval.type
                      t1 == IF check THEN t ELSE MapType(Default(key), Default(val))
                  IN  IF check /\ \E j \in 1..(arity \div 2) :
                                     \/ ~AssignableTo(args[2 * j - 1].Type, key)
                                     \/ ~AssignableTo(args[2 * j].Type, val)
                      THEN Fail("NotAssignable")
                      ELSE Done(Ret(arity, Elem(CompositeLit(t1, MapElts(args, arity)), t1)),
                                current.stmts)

\* SliceLit binding the element type from the first two operands only
SliceLitOp_FirstTwo(t, arity, keyVal) ==
    IF keyVal THEN Fail("KeyValMode")
    ELSE IF arity = 0
    THEN LET t0 == IF t = NilType THEN SliceType(TyEmptyInterface) ELSE t
         IN  Done(Push(Elem(CompositeLit(t0, <<>>), t0)), current.stmts)
    ELSE IF Underflow(arity) THEN Fail("StackUnderflow")
    ELSE LET args == GetArgs(arity)
             check == t # NilType
             bval == boundElementType(args, 0, Min(arity, 2), 1)
         IN  IF ~check /\ bval.err # "none" THEN Fail(bval.err)
             ELSE LET val == IF check THEN t.elem ELSE bval.type
                      t1 == IF check THEN t ELSE SliceType(Default(val))
                  IN  IF check /\ \E i \in 1..arity : ~AssignableTo(args[i].Type, val)
                      THEN Fail("NotAssignable")
                      ELSE Done(Ret(arity, Elem(CompositeLit(t1, [i \in 1..arity |-> args[i].Val]),
                                                t1)),
                                current.stmts)

\* SliceLit (codebuild.go 248-285)
SliceLitOp(t, arity, keyVal) ==
    IF keyVal THEN Fail("KeyValMode")
    ELSE IF arity = 0
    THEN LET t0 == IF t = NilType THEN SliceType(TyEmptyInterface) ELSE t
         IN  Done(Push(Elem(CompositeLit(t0, <<>>), t0)), current.stmts)
    ELSE IF Underflow(arity) THEN Fail("StackUnderflow")
    ELSE LET args == GetArgs(arity)
             check == t # NilType
             bval == boundElementType(args, 0, arity, 1)
         IN  IF ~check /\ bval.err # "none" THEN Fail(bval.err)
             ELSE LET val == IF check THEN t.elem ELSE bval.type
                      t1 == IF check THEN t ELSE SliceType(Default(val))
                  IN  IF check /\ \E i \in 1..arity : ~AssignableTo(args[i].Type, val)
                      THEN Fail("NotAssignable")
                      ELSE Done(Ret(arity, Elem(CompositeLit(t1, [i \in 1..arity |-> args[i].Val]),
                                                t1)),
                                current.stmts)

\* ArrayLit checking its first element only
ArrayLitOp_FirstOnly(t, arity, keyVal) ==
    IF keyVal THEN Fail("KeyValMode")
    ELSE IF t = NilType THEN Fail("NilDereference")
    ELSE IF t.len >= 0 /\ t.len < arity THEN Fail("IndexOutOfBounds")
    ELSE IF Underflow(arity) THEN Fail("StackUnderflow")
    ELSE LET args == GetArgs(arity)
         IN  IF arity > 0 /\ ~AssignableTo(args[1].Type, t.elem)
             THEN Fail("NotAssignable")
             ELSE Done(Ret(arity, Elem(CompositeLit(t, [i \in 1..arity |-> args[i].Val]), t)),
                       current.stmts)

\* ArrayLit (codebuild.go 288-310)
ArrayLitOp(t, arity, keyVal) ==
    IF keyVal THEN Fail("KeyValMode")
    ELSE IF t = NilType THEN Fail("NilDereference")
    ELSE IF t.len >= 0 /\ t.len < arity THEN Fail("IndexOutOfBounds")
    ELSE IF Underflow(arity) THEN Fail("StackUnderflow")
    ELSE LET args == GetArgs(arity)
         IN  IF \E i \in 1..arity : ~AssignableTo(args[i].Type, t.elem)
             THEN Fail("NotAssignable")
             ELSE Done(Ret(arity, Elem(CompositeLit(t, [i \in 1..arity |-> args[i].Val]), t)),
                       current.stmts)

\* indirect stripping every level of pointer
RECURSIVE indirect_Deep(_)
indirect_Deep(typ) == IF typ.k = "Pointer" THEN indirect_Deep(typ.elem) ELSE typ

\* indirect (codebuild.go 386-391)
indirect(typ) == IF typ.k = "Pointer" THEN typ.elem ELSE typ

\* methodTypeOf (codebuild.go 377-384): [err, type]
methodTypeOf(typ) ==
    IF typ.k = "Signature"
    THEN [err |-> "none", type |-> Signature(NilType, typ.params, typ.results, typ.variadic)]
    ELSE [err |-> "NotASignature", type |-> typ]

\* structFieldType (codebuild.go 367-375): [found, type] of the first field called name
structFieldType(o, name) ==
    IF \E i \in 1..Len(o.fields) : o.fields[i].name = name
    THEN LET i == CHOOSE i \in 1..Len(o.fields) :
                      /\ o.fields[i].name = name
                      /\ \A j \in 1..(i - 1) : o.fields[j].name # name
         IN  [found |-> TRUE, type |-> o.fields[i].type]
    ELSE [found |-> FALSE, type |-> NilType]

\* fieldVal (codebuild.go 356-365)
fieldVal(x, struc, name) ==
    LET t == structFieldType(struc, name)
    IN  IF t.found THEN Done(Ret(1, Elem(SelectorExpr(x, name), t.type)), current.stmts)
        ELSE Fail("MemberNotFound")

\* MemberVal looking among the fields of the underlying struct before the methods
MemberValOp_FieldFirst(name) ==
    IF Underflow(1) THEN Fail("StackUnderflow")
    ELSE LET arg == Get(-1)
             o == indirect(arg.Type)
         IN  IF o.k = "Named"
             THEN IF o.underlying.k = "Struct" /\ structFieldType(o.underlying, name).found
                  THEN fieldVal(arg.Val, o.underlying, name)
                  ELSE IF \E i \in 1..Len(o.methods) : o.methods[i].name = name
                  THEN LET i == CHOOSE i \in 1..Len(o.methods) : o.methods[i].name = name
                       IN  Done(Ret(1, Elem(SelectorExpr(arg.Val, name),
                                            methodTypeOf(o.methods[i].type).type)),
                                current.stmts)
                  ELSE Fail("MemberNotFound")
             ELSE IF o.k = "Struct" THEN fieldVal(arg.Val, o, name)
             ELSE Fail("MemberNotFound")

\* MemberVal (codebuild.go 326-354)
MemberValOp(name) ==
    IF Underflow(1) THEN Fail("StackUnderflow")
    ELSE LET arg == Get(-1)
             o == indirect(arg.Type)
         IN  IF o.k = "Named"
             THEN IF \E i \in 1..Len(o.methods) : o.methods[i].name = name
                  THEN LET i == CHOOSE i \in 1..Len(o.methods) :
                                    /\ o.methods[i].name = name
                                    /\ \A j \in 1..(i - 1) : o.methods[j].name # name
                           mt == methodTypeOf(o.methods[i].type)
                       IN  IF mt.err # "none" THEN Fail(mt.err)
                           ELSE Done(Ret(1, Elem(SelectorExpr(arg.Val, name), mt.type)),
                                     current.stmts)
                  ELSE IF o.underlying.k = "Struct" THEN fieldVal(arg.Val, o.underlying, name)
                  ELSE Fail("MemberNotFound")
             ELSE IF o.k = "Struct" THEN fieldVal(arg.Val, o, name)
             ELSE Fail("MemberNotFound")

\* the parallel branch with the sources paired to the targets in reverse
AssignParallel_Reversed(args, k) ==
    IF \E i \in 1..k : ~assignMatchType(args[i].Type, args[k + i].Type)
    THEN Fail("NotAssignable")
    ELSE Done(PopN(k + k),
              Append(current.stmts,
                     AssignStmt(NewStmtId, [i \in 1..k |-> args[i].Val],
                                [i \in 1..k |-> args[k + (k + 1 - i)].Val])))

\* Assign, lhs == rhs (codebuild.go 408-413, 430-431): k targets, then k sources
AssignParallel(args, k) ==
    IF \E i \in 1..k : ~assignMatchType(args[i].Type, args[k + i].Type)
    THEN Fail("NotAssignable")
    ELSE Done(PopN(k + k),
              Append(current.stmts,
                     AssignStmt(NewStmtId, [i \in 1..k |-> args[i].Val],
                                [i \in 1..k |-> args[k + i].Val])))

\* the spread branch without the comparison of lhs with the arity of the tuple
AssignSpread_NoArityCheck(args, lhs) ==
    LET rhsVals == args[lhs + 1].Type
    IN  IF rhsVals.k # "Tuple" THEN Fail("ArityMismatch")
        ELSE IF \E i \in 1..Min(lhs, Len(rhsVals.elems)) :
                    ~assignMatchType(args[i].Type, rhsVals.elems[i].type)
        THEN Fail("NotAssignable")
        ELSE Done(PopN(lhs + 1),
                  Append(current.stmts,
                         AssignStmt(NewStmtId, [i \in 1..lhs |-> args[i].Val],
                                    <<args[lhs + 1].Val>>)))

\* Assign, rhs == 1 (codebuild.go 414-423, 430-431): lhs targets, then one source
AssignSpread(args, lhs) ==
    LET rhsVals == args[lhs + 1].Type
    IN  IF rhsVals.k # "Tuple" THEN Fail("ArityMismatch")
        ELSE IF lhs # Len(rhsVals.elems) THEN Fail("ArityMismatch")
        ELSE IF \E i \in 1..lhs : ~assignMatchType(args[i].Type, rhsVals.elems[i].type)
        THEN Fail("NotAssignable")
        ELSE Done(PopN(lhs + 1),
                  Append(current.stmts,
                         AssignStmt(NewStmtId, [i \in 1..lhs |-> args[i].Val],
                                    <<args[lhs + 1].Val>>)))

\* Assign (codebuild.go 394-433)
AssignOp(lhs, rhs) ==
    IF Underflow(lhs + rhs) THEN Fail("StackUnderflow")
    ELSE IF lhs = rhs THEN AssignParallel(GetArgs(lhs + rhs), lhs)
    ELSE IF rhs = 1 THEN AssignSpread(GetArgs(lhs + rhs), lhs)
    ELSE Fail("ArityMismatch")

\* Call (codebuild.go 436-450)
CallOn(s, n, ellipsis) ==
    IF n + 1 > Len(s) THEN [err |-> "StackUnderflow", stk |-> s]
    ELSE LET fn == s[Len(s) - n]
             args == SubSeq(s, Len(s) - n + 1, Len(s))
             r == toFuncCall(fn, args, ellipsis)
         IN  IF r.err # "none" THEN [err |-> r.err, stk |-> s]
             ELSE [err |-> "none", stk |-> Append(SubSeq(s, 1, Len(s) - (n + 1)), r.elem)]

\* Call on the builder's stack
CallOp(n, ellipsis) ==
    LET r == CallOn(stk, n, ellipsis)
    IN  Result(r.err, r.stk, current.stmts)

NoFunc == [name |-> "", type |-> NilType]

\* Return (codebuild.go 453-472)
ReturnOp(n) ==
    IF current.fn = NoFunc THEN Fail("NilDereference")
    ELSE IF Underflow(n) THEN Fail("StackUnderflow")
    ELSE LET results == current.fn.type.results
             args == GetArgs(n)
         IN  IF ~checkMatchFuncResults(args, results) THEN Fail("ResultMismatch")
             ELSE Done(IF n > 0 THEN PopN(n) ELSE stk,
                       Append(current.stmts,
                              ReturnStmt(NewStmtId, [i \in 1..n |-> args[i].Val])))

\* BinaryOp typing its result by its left operand, whatever the callable accepts
BinaryOpOp_OwnRule(op) ==
    IF Underflow(2) THEN Fail("StackUnderflow")
    ELSE IF op \in BinaryOutOfRange THEN Fail("IndexOutOfRange")
    ELSE LET fn == LookupOperator(binaryOps(op))
             args == GetArgs(2)
         IN  IF ~fn.found THEN Fail("OperatorNotSupported")
             ELSE Done(Ret(2, Elem(CallExpr(fn.obj.Val, <<args[1].Val, args[2].Val>>, FALSE),
                                   Default(args[1].Type))),
                       current.stmts)

\* BinaryOp (codebuild.go 475-489)
BinaryOpOp(op) ==
    IF Underflow(2) THEN Fail("StackUnderflow")
    ELSE IF op \in BinaryOutOfRange THEN Fail("IndexOutOfRange")
    ELSE LET fn == LookupOperator(binaryOps(op))
         IN  IF ~fn.found THEN Fail("OperatorNotSupported")
             ELSE LET r == toFuncCall(fn.obj, GetArgs(2), FALSE)
                  IN  IF r.err # "none" THEN Fail(r.err)
                      ELSE Done(Ret(2, r.elem), current.stmts)

\* UnaryOp replacing two operands, as BinaryOp does
UnaryOpOp_PopTwo(op) ==
    IF Underflow(1) THEN Fail("StackUnderflow")
    ELSE IF op \in UnaryOutOfRange THEN Fail("IndexOutOfRange")
    ELSE LET fn == LookupOperator(unaryOps(op))
         IN  IF ~fn.found THEN Fail("OperatorNotSupported")
             ELSE LET r == toFuncCall(fn.obj, GetArgs(1), FALSE)
                  IN  IF r.err # "none" THEN Fail(r.err)
                      ELSE Done(Ret(2, r.elem), current.stmts)

\* UnaryOp (codebuild.go 516-530)
UnaryOpOp(op) ==
    IF Underflow(1) THEN Fail("StackUnderflow")
    ELSE IF op \in UnaryOutOfRange THEN Fail("IndexOutOfRange")
    ELSE LET fn == LookupOperator(unaryOps(op))
         IN  IF ~fn.found THEN Fail("OperatorNotSupported")
             ELSE LET r == toFuncCall(fn.obj, GetArgs(1), FALSE)
                  IN  IF r.err # "none" THEN Fail(r.err)
                      ELSE Done(Ret(1, r.elem), current.stmts)

\* Defer recording the deferred call as a statement
DeferOp_Schedule ==
    IF Underflow(1) THEN Fail("StackUnderflow")
    ELSE Done(PopN(1), Append(current.stmts, ExprStmt(NewStmtId, Get(-1).Val)))

\* Defer (codebuild.go 540-542) and Go (codebuild.go 545-547)
DeferOp == Fail("Unsupported")
GoOp == Fail("Unsupported")

\* EndStmt with the operand popped before the count is checked
EndStmtOp_PopFirst ==
    LET n == Len(stk) - current.base
    IN  IF n > 0
        THEN IF n # 1 THEN Result("SyntaxError", PopN(1), current.stmts)
             ELSE Done(PopN(1), Append(current.stmts, ExprStmt(NewStmtId, Get(-1).Val)))
        ELSE Done(stk, current.stmts)

\* EndStmt counting the operands of the whole stack, not those above the base
EndStmtOp_IgnoreBase ==
    LET n == Len(stk)
    IN  IF n > 0
        THEN IF n # 1 THEN Fail("SyntaxError")
             ELSE Done(PopN(1), Append(current.stmts, ExprStmt(NewStmtId, Get(-1).Val)))
        ELSE Done(stk, current.stmts)

\* EndStmt (codebuild.go 550-560)
EndStmtOp ==
    LET n == Len(stk) - current.base
    IN  IF n > 0
        THEN IF n # 1 THEN Fail("SyntaxError")
             ELSE Done(PopN(1), Append(current.stmts, ExprStmt(NewStmtId, Get(-1).Val)))
        ELSE Done(stk, current.stmts)

\* ---------------------------------------------------------------- blocks and scopes

PkgScope == 1
Universe == 0

NewScope(parent, comment, names) == [parent |-> parent, comment |-> comment, names |-> names]

codeBlockCtx(cb, scope, base, stmts) ==
    [codeBlock |-> cb, scope |-> scope, base |-> base, stmts |-> stmts]

\* the codeBlockCtx embedded in a funcBodyCtx, and a funcBodyCtx with it replaced
CtxOf(c) == codeBlockCtx(c.codeBlock, c.scope, c.base, c.stmts)
WithCtx(c, ctx) ==
    [codeBlock |-> ctx.codeBlock, scope |-> ctx.scope, base |-> ctx.base,
     stmts |-> ctx.stmts, fn |-> c.fn]

ZeroCtx == codeBlockCtx("nil", Universe, 0, <<>>)
ZeroFuncBodyCtx == [ctx |-> ZeroCtx, fn |-> NoFunc]

\* startBlockStmt with the new scope made a child of the package scope
startBlockStmt_ParentPkg(c, cb, comment) ==
    [scopes |-> Append(scopes, NewScope(PkgScope, comment, {})),
     current |-> WithCtx(c, codeBlockCtx(cb, Len(scopes) + 1, Len(stk), <<>>)),
     old |-> CtxOf(c)]

\* startBlockStmt with the statement list carried into the new block
startBlockStmt_KeepStmts(c, cb, comment) ==
    [scopes |-> Append(scopes, NewScope(c.scope, comment, {})),
     current |-> WithCtx(c, codeBlockCtx(cb, Len(scopes) + 1, Len(stk), c.stmts)),
     old |-> CtxOf(c)]

\* startBlockStmt (codebuild.go 99-103): the scopes, the current context and
\* the value stored through old after the call, given the context c it starts from
startBlockStmt(c, cb, comment) ==
    [scopes |-> Append(scopes, NewScope(c.scope, comment, {})),
     current |-> WithCtx(c, codeBlockCtx(cb, Len(scopes) + 1, Len(stk), <<>>)),
     old |-> CtxOf(c)]

\* insertParams (codebuild.go 85-92): the names inserted into a scope
insertParams(params) == {params[i].name : i \in {j \in 1..Len(params) : params[j].name # ""}}

\* startFuncBody (codebuild.go 75-83)
startFuncBody(fn) ==
    LET b == startBlockStmt([current EXCEPT !.fn = fn], fn.name, "func " \o fn.name)
        sc == b.current.scope
        sig == fn.type
    IN  [scopes |-> [b.scopes EXCEPT ![sc].names =
                        @ \cup insertParams(sig.params) \cup insertParams(sig.results)],
         current |-> b.current,
         old |-> [ctx |-> b.old, fn |-> current.fn]]

\* endBlockStmt without the truncation of the stack
endBlockStmt_NoTruncate(c, old) ==
    [err |-> "none", stmts |-> c.stmts, stk |-> stk, current |-> WithCtx(c, old)]

\* endBlockStmt (codebuild.go 105-110): the statements returned, the stack and
\* the current context after the call, given the context c it starts from
endBlockStmt(c, old) ==
    IF c.base > Len(stk)
    THEN [err |-> "StackUnderflow", stmts |-> <<>>, stk |-> stk, current |-> c]
    ELSE [err |-> "none", stmts |-> c.stmts, stk |-> SetLen(c.base), current |-> WithCtx(c, old)]

\* endFuncBody without the restoring of the function
endFuncBody_KeepFn(old) == endBlockStmt(current, old.ctx)

\* endFuncBody (codebuild.go 94-97)
endFuncBody(old) == endBlockStmt([current EXCEPT !.fn = old.fn], old.ctx)

\* ---------------------------------------------------------------- expression size

RECURSIVE ExprDepth(_)
ExprDepth(e) ==
    LET MaxOf(es) == IF Len(es) = 0 THEN 0
                     ELSE CHOOSE d \in {ExprDepth(es[i]) : i \in 1..Len(es)} :
                              \A i \in 1..Len(es) : ExprDepth(es[i]) <= d
    IN  CASE e.k \in {"Ident", "BasicLit"} -> 0
          [] e.k = "SelectorExpr" -> 1 + ExprDepth(e.x)
          [] e.k = "CallExpr" -> 1 + Max(ExprDepth(e.fun), MaxOf(e.args))
          [] e.k = "KeyValueExpr" -> Max(ExprDepth(e.key), ExprDepth(e.value))
          [] e.k = "CompositeLit" -> 1 + MaxOf(e.elts)

RECURSIVE StackSize(_)
StackSize(s) == IF s = <<>> THEN 0 ELSE 1 + ExprDepth(Last(s).Val) + StackSize(Front(s))

Size(s, n, sc) == StackSize(s) + n + (Len(sc) - 1)

\* the bound every step stays within
WithinBounds(r) ==
    Size(r.stk, nstmt + (Len(r.stmts) - Len(current.stmts)), scopes) <= budget

\* ---------------------------------------------------------------- inputs

TNamed ==
    Named("T",
          <<[name |-> "m", type |-> Signature(Basic("T"), <<>>, <<Var("", TInt)>>, FALSE)]>>,
          Struct(<<Field("fld", TInt), Field("m", TString)>>))

IntLit == [kind |-> "int", lit |-> "1"]
StringLit == [kind |-> "string", lit |-> "a"]
fObj == [kind |-> "obj", name |-> "f",
         type |-> Signature(NilType, <<>>, <<Var("", TInt), Var("", TString)>>, FALSE)]
rObj == [kind |-> "obj", name |-> "r", type |-> TNamed]

xRef == [kind |-> "Var", name |-> "x", type |-> TInt]
nilRef == [kind |-> "nil"]
otherRef == [kind |-> "other"]
AutoNames == {"v"}
AutoVarRefs == {[kind |-> "AutoVar", name |-> n, type |-> UnboundType] : n \in autovars}

\* the functions whose bodies are built: a function and a closure
outerFn == [name |-> "F",
            type |-> Signature(NilType, <<Var("a", TInt), Var("", TInt)>>, <<Var("", TInt)>>, FALSE)]
closureFn == [name |-> "",
              type |-> Signature(NilType, <<Var("p", TString)>>, <<>>, FALSE)]
FuncInputs == {outerFn, closureFn}

\* ---------------------------------------------------------------- inference (typesinfer_go123.go)

\* an error value: nil, or one with the message Error() returns
NoError == [nil |-> TRUE]
Errorf(msg) == [nil |-> FALSE, msg |-> msg]

\* the errors the session hands to Config.Error
TypesError(pos, msg) == [kind |-> "types.Error", Pos |-> pos, Msg |-> msg]
OtherError(text) == [kind |-> "error", text |-> text]

\* the text of the diagnostic an error carries
DiagnosticOf(e) == IF e.kind = "types.Error" THEN e.Msg ELSE e.text

\* no call of infer is under way
NoInfer == [pc |-> "idle", desc |-> <<>>, err |-> NoError, cerr |-> NoError, diags |-> <<>>]

\* ---------------------------------------------------------------- imports (import.go)

\* the characters '0'..'9' and 'a'..'z', in the order of their codes
Digits == <<"0", "1", "2", "3", "4", "5", "6", "7", "8", "9">>
Letters ==
    <<"a", "b", "c", "d", "e", "f", "g", "h", "i", "j", "k", "l", "m",
      "n", "o", "p", "q", "r", "s", "t", "u", "v", "w", "x", "y", "z">>

\* the place of the character c in the sequence cs, 0 when it is not there
PlaceIn(cs, c) == IF \E i \in 1..Len(cs) : cs[i] = c THEN CHOOSE i \in 1..Len(cs) : cs[i] = c ELSE 0

\* toIndex (import.go 199-207): [err, val]
toIndex(c) ==
    IF PlaceIn(Digits, c) > 0 THEN [err |-> "none", val |-> PlaceIn(Digits, c) - 1]
    ELSE IF PlaceIn(Letters, c) > 0 THEN [err |-> "none", val |-> PlaceIn(Letters, c) - 1 + 10]
    ELSE [err |-> "InvalidCharacter", val |-> 0]

\* an empty slot of a []types.Object
NilObject == [nil |-> TRUE]

\* the loop of overloadFuncs with the check of the occupied slot left out
RECURSIVE overloadLoop_Overwrite(_, _, _, _)
overloadLoop_Overwrite(off, items, i, fns) ==
    IF i > Len(items) THEN [err |-> "none", fns |-> fns]
    ELSE LET idx == toIndex(items[i].name[off + 1])
         IN  IF idx.err # "none" THEN [err |-> idx.err, fns |-> fns]
             ELSE IF idx.val >= Len(items) THEN [err |-> "IndexOutOfRange", fns |-> fns]
             ELSE overloadLoop_Overwrite(off, items, i + 1, [fns EXCEPT ![idx.val + 1] = items[i]])

\* the loop of overloadFuncs (import.go 186-195) from item i on: [err, fns]
RECURSIVE overloadLoop(_, _, _, _)
overloadLoop(off, items, i, fns) ==
    IF i > Len(items) THEN [err |-> "none", fns |-> fns]
    ELSE LET idx == toIndex(items[i].name[off + 1])
         IN  IF idx.err # "none" THEN [err |-> idx.err, fns |-> fns]
             ELSE IF idx.val >= Len(items) THEN [err |-> "IndexOutOfRange", fns |-> fns]
             ELSE IF fns[idx.val + 1] # NilObject THEN [err |-> "Exists", fns |-> fns]
             ELSE overloadLoop(off, items, i + 1, [fns EXCEPT ![idx.val + 1] = items[i]])

\* overloadFuncs (import.go 184-197): [err, fns]
overloadFuncs(off, items) ==
    overloadLoop(off, items, 1, [j \in 1..Len(items) |-> NilObject])

\* no call of overloadFuncs has been made
NoOverload == [pc |-> "idle"]

\* strconv.Itoa of a natural number
RECURSIVE Itoa(_)
Itoa(n) == IF n < 10 THEN Digits[n + 1] ELSE Itoa(n \div 10) \o Digits[(n % 10) + 1]

\* a types.Scope: the names it holds and its child scopes
Scope(names, children) == [names |-> names, children |-> children]

\* Scope.Lookup(name) != nil
ScopeLookup(at, name) == name \in at.names

\* scopeHasName (import.go 288-299)
RECURSIVE scopeHasName(_, _)
scopeHasName(at, name) ==
    \/ ScopeLookup(at, name)
    \/ \E i \in 1..Len(at.children) : scopeHasName(at.children[i], name)

\* types.Universe, as far as the names of the model go
UniverseScope == Scope({"int"}, <<>>)

\* newAutoNames (import.go 280-286)
newAutoNames(gbl, builtin) == [gbl |-> gbl, builtin |-> builtin, names |-> {}, idx |-> 0]

\* importHasName (import.go 301-304)
importHasName(p, name) == name \in p.names

\* hasName (import.go 306-309)
hasName(p, name) ==
    \/ scopeHasName(p.gbl, name)
    \/ importHasName(p, name)
    \/ ScopeLookup(p.builtin, name)
    \/ ScopeLookup(UniverseScope, name)

\* the loop of RequireName (import.go 313-317): [p, ret, renamed]
RECURSIVE requireLoop(_, _, _, _)
requireLoop(p, name, ret, renamed) ==
    IF hasName(p, ret)
    THEN requireLoop([p EXCEPT !.idx = @ + 1], name, name \o Itoa(p.idx + 1), TRUE)
    ELSE [p |-> p, ret |-> ret, renamed |-> renamed]

\* RequireName (import.go 311-320): [p, ret, renamed]
RequireName(p, name) ==
    LET r == requireLoop(p, name, name, FALSE)
    IN  [p |-> [r.p EXCEPT !.names = @ \cup {name}], ret |-> r.ret, renamed |-> r.renamed]

\* no autoNames has been made
NoAutoNames == [made |-> FALSE]
\* stdpkg[pkgPath] (import.go 225): the paths of the standard library
StdPkgs == {"fmt"}
stdpkg(pkgPath) == pkgPath \in StdPkgs

\* the test of InitGopPkg with the standard library left out
visited_ChkOnly(chkGopImports, pkgPath) == pkgPath \in chkGopImports

\* the test of InitGopPkg (import.go 225): nothing is to be done for pkgPath
visited(chkGopImports, pkgPath) == stdpkg(pkgPath) \/ pkgPath \in chkGopImports

\* a call of InitGopPkg under way: its package, where it stands ("entry":
\* before the test; "loop": in the loop over the imports) and the import
\* the loop is at
Frame(pkgPath, pc, i) == [pkg |-> pkgPath, pc |-> pc, i |-> i]

\* NewContext (import.go 216-220) over the packages whose Imports() are
\* imports; inits lists the packages initThisGopPkg ran for, in order
NewContext(imports) ==
    [made |-> TRUE, imports |-> imports, chkGopImports |-> {}, stack |-> <<>>,
     inits |-> <<>>, calls |-> 0, arg |-> "", panicked |-> FALSE]

\* no Context has been made
NoContext == [made |-> FALSE]

\* ---------------------------------------------------------------- the state machine

NoEntry == [kind |-> "none"]

\* the record of an operation: its name and arguments, how it ended,
\* the stack and statement list it started from, the block entry an exit
\* closed and the statements the exit returned
Op(name, args, err, s, st, matched, entry, returned) ==
    [op |-> name, args |-> args, err |-> err, stk |-> s, stmts |-> st,
     matched |-> matched, entry |-> entry, ret |-> returned]

\* the builder after CodeBuilder.init (codebuild.go 60-64)
InitBuilder(b) ==
    /\ budget = b
    /\ inf = NoInfer
    /\ ovl = NoOverload
    /\ auto = NoAutoNames
    /\ context = NoContext
    /\ stk = <<>>
    /\ current = WithCtx([fn |-> NoFunc], codeBlockCtx("nil", PkgScope, 0, <<>>))
    /\ saved = <<>>
    /\ scopes = <<NewScope(Universe, "package", {"f", "r", "x"})>>
    /\ autovars = {}
    /\ nstmt = 0
    /\ entered = <<>>
    /\ owner = <<>>
    /\ last = Op("init", <<>>, "none", <<>>, <<>>, TRUE, NoEntry, <<>>)

\* A panic unwinds the caller: no operation is issued on the builder after
\* it. A run is likewise followed no further than its first unmatched exit.
Alive == last.err = "none" /\ last.matched

\* A construction operation that ended with Result r
Apply(name, args, r) ==
    /\ Alive
    /\ WithinBounds(r)
    /\ stk' = r.stk
    /\ current' = [current EXCEPT !.stmts = r.stmts]
    /\ nstmt' = nstmt + (Len(r.stmts) - Len(current.stmts))
    /\ owner' = owner \o [i \in 1..(Len(r.stmts) - Len(current.stmts)) |-> current.scope]
    /\ last' = Op(name, args, r.err, stk, current.stmts, TRUE, NoEntry, <<>>)
    /\ UNCHANGED <<saved, scopes, entered, budget, inf, ImportVars>>

Val(v) == Apply("Val", <<>>, ValOp(v)) /\ UNCHANGED autovars
VarRef(ref) == Apply("VarRef", <<>>, VarRefOp(ref)) /\ UNCHANGED autovars
NewAutoVar(name) == Apply("NewAutoVar", <<>>, NewAutoVarOp(name)) /\ autovars' = autovars \cup {name}
MapLit(t, arity) == Apply("MapLit", <<arity, t>>, MapLitOp(t, arity)) /\ UNCHANGED autovars
SliceLit(t, arity, keyVal) ==
    Apply("SliceLit", <<arity, t>>, SliceLitOp(t, arity, keyVal)) /\ UNCHANGED autovars
ArrayLit(t, arity, keyVal) ==
    Apply("ArrayLit", <<arity, t>>, ArrayLitOp(t, arity, keyVal)) /\ UNCHANGED autovars
MemberVal(name) == Apply("MemberVal", <<name>>, MemberValOp(name)) /\ UNCHANGED autovars
Assign(lhs, rhs) == Apply("Assign", <<lhs, rhs>>, AssignOp(lhs, rhs)) /\ UNCHANGED autovars
Call(n, ellipsis) == Apply("Call", <<n>>, CallOp(n, ellipsis)) /\ UNCHANGED autovars
Return(n) == Apply("Return", <<n>>, ReturnOp(n)) /\ UNCHANGED autovars
BinaryOp(op) == Apply("BinaryOp", <<op>>, BinaryOpOp(op)) /\ UNCHANGED autovars
UnaryOp(op) == Apply("UnaryOp", <<op>>, UnaryOpOp(op)) /\ UNCHANGED autovars
Defer == Apply("Defer", <<>>, DeferOp) /\ UNCHANGED autovars
Go == Apply("Go", <<>>, GoOp) /\ UNCHANGED autovars
EndStmt == Apply("EndStmt", <<>>, EndStmtOp) /\ UNCHANGED autovars

\* what the builder looks like when a block is entered
Entry(kind, fn) ==
    [kind |-> kind, fn |-> fn, depth |-> Len(stk), scope |-> current.scope,
     stmts |-> current.stmts, newScope |-> Len(scopes) + 1]

CanEnter == Alive /\ Size(stk, nstmt, scopes) < budget

\* a caller opens a block statement and keeps the old context
StartBlockStmt ==
    /\ CanEnter
    /\ LET b == startBlockStmt(current, "block", "block")
       IN  /\ scopes' = b.scopes
           /\ current' = b.current
           /\ saved' = Append(saved, [kind |-> "block", ctx |-> b.old, fn |-> NoFunc])
    /\ entered' = Append(entered, Entry("block", NoFunc))
    /\ last' = Op("startBlockStmt", <<>>, "none", stk, current.stmts, TRUE, NoEntry, <<>>)
    /\ UNCHANGED <<stk, autovars, nstmt, owner, budget, inf, ImportVars>>

\* a caller opens the body of fn and keeps the old context
StartFuncBody(fn) ==
    /\ CanEnter
    /\ LET b == startFuncBody(fn)
       IN  /\ scopes' = b.scopes
           /\ current' = b.current
           /\ saved' = Append(saved, [kind |-> "func", ctx |-> b.old.ctx, fn |-> b.old.fn])
    /\ entered' = Append(entered, Entry("func", fn))
    /\ last' = Op("startFuncBody", <<>>, "none", stk, current.stmts, TRUE, NoEntry, <<>>)
    /\ UNCHANGED <<stk, autovars, nstmt, owner, budget, inf, ImportVars>>

\* an exit that ended with r; matched: the caller is the one that opened the
\* innermost open block and passes the context it kept
Exit(name, r, matched) ==
    /\ Alive
    /\ stk' = r.stk
    /\ current' = r.current
    /\ saved' = IF r.err = "none" /\ matched THEN Front(saved) ELSE saved
    /\ entered' = IF r.err = "none" /\ matched THEN Front(entered) ELSE entered
    /\ last' = Op(name, <<Len(stk)>>, r.err, <<>>, current.stmts, matched,
                  IF matched THEN Last(entered) ELSE NoEntry, r.stmts)
    /\ UNCHANGED <<scopes, autovars, nstmt, owner, budget, inf, ImportVars>>

\* the caller of the innermost open block statement closes it
EndBlockStmt ==
    /\ saved # <<>>
    /\ Last(saved).kind = "block"
    /\ Exit("endBlockStmt", endBlockStmt(current, Last(saved).ctx), TRUE)

\* the caller of the innermost open function body closes it
EndFuncBody ==
    /\ saved # <<>>
    /\ Last(saved).kind = "func"
    /\ Exit("endFuncBody", endFuncBody([ctx |-> Last(saved).ctx, fn |-> Last(saved).fn]), TRUE)

\* ---------------------------------------------------------------- Spec: blocks and statements
\* Callers keep the LIFO discipline: a block is closed by the caller that
\* opened it, with the context that caller kept.

BlockVals == {IntLit}
BlockRefs == {xRef}
BlockArities == 0..1

Init == InitBuilder(MaxSize)

Next ==
    \/ \E v \in BlockVals : Val(v)
    \/ \E ref \in BlockRefs : VarRef(ref)
    \/ \E n \in AutoNames : NewAutoVar(n)
    \/ Assign(1, 1)
    \/ \E n \in BlockArities : Return(n)
    \/ EndStmt
    \/ StartBlockStmt
    \/ \E fn \in FuncInputs : StartFuncBody(fn)
    \/ EndBlockStmt
    \/ EndFuncBody

Spec == Init /\ [][Next]_vars

\* ---------------------------------------------------------------- SpecMisuse: exits without a matching enter
\* As Spec, and callers may also exit with a context that is not the one the
\* innermost open enter produced: a zero context, or the context an outer
\* enter produced.

StaleCtxs == {ZeroFuncBodyCtx} \cup {[ctx |-> saved[i].ctx, fn |-> saved[i].fn] : i \in 1..(Len(saved) - 1)}

UnmatchedEndBlockStmt(old) == Exit("endBlockStmt", endBlockStmt(current, old.ctx), FALSE)
UnmatchedEndFuncBody(old) == Exit("endFuncBody", endFuncBody(old), FALSE)

NextMisuse ==
    \/ \E v \in BlockVals : Val(v)
    \/ \E ref \in BlockRefs : VarRef(ref)
    \/ \E n \in AutoNames : NewAutoVar(n)
    \/ Assign(1, 1)
    \/ \E n \in BlockArities : Return(n)
    \/ EndStmt
    \/ StartBlockStmt
    \/ \E fn \in FuncInputs : StartFuncBody(fn)
    \/ EndBlockStmt
    \/ EndFuncBody
    \/ \E old \in StaleCtxs : UnmatchedEndBlockStmt(old)
    \/ \E old \in StaleCtxs : UnmatchedEndFuncBody(old)

SpecMisuse == Init /\ [][NextMisuse]_vars

\* ---------------------------------------------------------------- SpecOps: the construction operations
\* Every construction operation, on operands of every kind of type, at the
\* package level and in the body of a function.

gObj == [kind |-> "obj", name |-> "g",
         type |-> Signature(NilType, <<Var("a", TInt)>>, <<Var("", TInt)>>, FALSE)]

OpsVals == {IntLit, gObj, rObj}
OpsRefs == {xRef, nilRef, otherRef} \cup AutoVarRefs
OpsArities == 0..2
OpsMapTypes == {NilType, MapType(TInt, TInt)}
OpsSliceTypes == {NilType, SliceType(TInt)}
OpsArrayTypes == {NilType, ArrayType(TInt, 1)}
OpsMembers == {"m", "fld", "zz"}
OpsBinaryTokens == {"ADD", "SUB", "DEFINE"}
OpsUnaryTokens == {"SUB", "XOR", "NOT"}

InitOps == InitBuilder(MaxOpsSize)

NextOps ==
    \/ \E v \in OpsVals : Val(v)
    \/ \E ref \in OpsRefs : VarRef(ref)
    \/ \E n \in AutoNames : NewAutoVar(n)
    \/ \E t \in OpsMapTypes, n \in OpsArities : MapLit(t, n)
    \/ \E t \in OpsSliceTypes, n \in OpsArities, kv \in BOOLEAN : SliceLit(t, n, kv)
    \/ \E t \in OpsArrayTypes, n \in OpsArities, kv \in BOOLEAN : ArrayLit(t, n, kv)
    \/ \E name \in OpsMembers : MemberVal(name)
    \/ \E lhs \in OpsArities, rhs \in OpsArities : Assign(lhs, rhs)
    \/ \E n \in OpsArities, e \in BOOLEAN : Call(n, e)
    \/ \E n \in OpsArities : Return(n)
    \/ \E op \in OpsBinaryTokens : BinaryOp(op)
    \/ \E op \in OpsUnaryTokens : UnaryOp(op)
    \/ Defer
    \/ Go
    \/ EndStmt
    \/ StartFuncBody(outerFn)
    \/ EndFuncBody

SpecOps == InitOps /\ [][NextOps]_vars

\* ---------------------------------------------------------------- SpecAssign: assignments
\* Targets, sources and multi-valued calls, assigned at the package level.

AssignVals == {IntLit, StringLit, fObj}
AssignRefs == {xRef, nilRef}
AssignArities == 0..2

InitAssign == InitBuilder(MaxAssignSize)

NextAssign ==
    \/ \E v \in AssignVals : Val(v)
    \/ \E ref \in AssignRefs : VarRef(ref)
    \/ Call(0, FALSE)
    \/ \E lhs \in AssignArities, rhs \in AssignArities : Assign(lhs, rhs)

SpecAssign == InitAssign /\ [][NextAssign]_vars

\* ---------------------------------------------------------------- SpecExpr: members and operators
\* Receivers of named, struct and pointer types with their members, and
\* operands under binary and unary operator tokens.

TStruct == Struct(<<Field("fld", TInt)>>)
pObj == [kind |-> "obj", name |-> "p", type |-> Pointer(TNamed)]
ppObj == [kind |-> "obj", name |-> "pp", type |-> Pointer(Pointer(TNamed))]
sObj == [kind |-> "obj", name |-> "s", type |-> TStruct]
psObj == [kind |-> "obj", name |-> "ps", type |-> Pointer(TStruct)]

ExprVals == {IntLit, StringLit, rObj, pObj, ppObj, sObj, psObj}
ExprMembers == {"m", "fld", "zz"}
ExprBinaryTokens == {"ADD", "SUB", "LAND", "DEFINE"}
ExprUnaryTokens == {"SUB", "XOR", "ADD", "NOT"}

InitExpr == InitBuilder(MaxExprSize)

NextExpr ==
    \/ \E v \in ExprVals : Val(v)
    \/ \E name \in ExprMembers : MemberVal(name)
    \/ \E op \in ExprBinaryTokens : BinaryOp(op)
    \/ \E op \in ExprUnaryTokens : UnaryOp(op)

SpecExpr == InitExpr /\ [][NextExpr]_vars

\* ---------------------------------------------------------------- SpecLits: composite literals
\* Map, slice and array literals with and without an explicit type, over
\* constants of the untyped kinds and a typed variable.

FloatLit == [kind |-> "float", lit |-> "1.5"]
nObj == [kind |-> "obj", name |-> "n", type |-> TInt]

LitVals == {IntLit, FloatLit, StringLit, nObj}
LitArities == 0..3
LitMapTypes == {NilType, MapType(TString, TInt)}
LitSliceTypes == {NilType, SliceType(TInt)}
LitArrayTypes == {NilType, ArrayType(TInt, 2)}

InitLits == InitBuilder(MaxLitSize)

NextLits ==
    \/ \E v \in LitVals : Val(v)
    \/ \E t \in LitMapTypes, n \in LitArities : MapLit(t, n)
    \/ \E t \in LitSliceTypes, n \in LitArities : SliceLit(t, n, FALSE)
    \/ \E t \in LitArrayTypes, n \in LitArities : ArrayLit(t, n, FALSE)

SpecLits == InitLits /\ [][NextLits]_vars

\* ---------------------------------------------------------------- SpecInfer: one call of infer
\* infer builds a session whose Config.Error assigns infer's result err,
\* then calls checker_infer, which hands the oracle an empty error record;
\* the oracle records diagnostics in the record and reports errors to the
\* session, in any order, and returns.

InferMsgs == {"cannot infer T", "mismatched types"}
InferErrors ==
    {TypesError("f.go:1", m) : m \in InferMsgs} \cup {OtherError("internal error")}

BuilderVars == <<stk, current, saved, scopes, autovars, nstmt, entered, owner, budget, last>>

\* infer (55-65) up to the call of the oracle in checker_infer (45-48)
InferCall ==
    /\ inf.pc = "idle"
    /\ inf' = [inf EXCEPT !.pc = "solving"]
    /\ UNCHANGED <<BuilderVars, ImportVars>>

\* the oracle (checker_infer123, 42-43) adds a diagnostic to the error record
OracleRecords(m) ==
    /\ inf.pc = "solving"
    /\ Len(inf.diags) < budget
    /\ inf' = [inf EXCEPT !.desc = Append(@, m), !.diags = Append(@, m)]
    /\ UNCHANGED <<BuilderVars, ImportVars>>

\* the oracle reports e to the session: Config.Error (57-62) runs
OracleReports(e) ==
    /\ inf.pc = "solving"
    /\ Len(inf.diags) < budget
    /\ inf' = [inf EXCEPT !.err = IF e.kind = "types.Error" THEN Errorf(e.Msg)
                                                              ELSE Errorf(e.text),
                          !.diags = Append(@, DiagnosticOf(e))]
    /\ UNCHANGED <<BuilderVars, ImportVars>>

\* the oracle returns and checker_infer (49-52) makes its err from the record
CheckerInferReturns ==
    /\ inf.pc = "solving"
    /\ inf' = [inf EXCEPT !.pc = "returned",
                          !.cerr = IF Len(inf.desc) > 0 THEN Errorf(inf.desc[1]) ELSE NoError]
    /\ UNCHANGED <<BuilderVars, ImportVars>>

\* infer (65-66) assigns what checker_infer returned and returns
InferReturns ==
    /\ inf.pc = "returned"
    /\ inf' = [inf EXCEPT !.pc = "done", !.err = inf.cerr]
    /\ UNCHANGED <<BuilderVars, ImportVars>>

InitInfer == InitBuilder(MaxDiags)

NextInfer ==
    \/ InferCall
    \/ \E m \in InferMsgs : OracleRecords(m)
    \/ \E e \in InferErrors : OracleReports(e)
    \/ CheckerInferReturns
    \/ InferReturns

SpecInfer == InitInfer /\ [][NextInfer]_vars

\* ---------------------------------------------------------------- SpecOverload: one call of overloadFuncs
\* initThisGopPkg (import.go 140-157) collects the objects named
\* key__<index> under their key and calls overloadFuncs(len(key) + 2, items).

OverloadKeys == {<<"f">>, <<"g", "o">>}
IndexChars == {"0", "1", "2", "3", "a", "A"}

\* the sequences of at most n elements of S
SeqsUpTo(S, n) == UNION {[1..k -> S] : k \in 0..n}

\* the item at place i of the items: the object called key__c
OverloadItem(key, i, c) == [id |-> i, name |-> key \o <<"_", "_", c>>]

CallOverloadFuncs(key, cs) ==
    /\ ovl.pc = "idle"
    /\ LET off == Len(key) + 2
           items == [i \in 1..Len(cs) |-> OverloadItem(key, i, cs[i])]
           r == overloadFuncs(off, items)
       IN  ovl' = [pc |-> "done", off |-> off, items |-> items, err |-> r.err, fns |-> r.fns]
    /\ UNCHANGED <<BuilderVars, inf, auto, context>>

InitOverload == InitBuilder(MaxItems)

NextOverload == \E key \in OverloadKeys, cs \in SeqsUpTo(IndexChars, budget) : CallOverloadFuncs(key, cs)

SpecOverload == InitOverload /\ [][NextOverload]_vars

\* ---------------------------------------------------------------- SpecNames: RequireName on one autoNames
\* The package scope, the builtin scope and the universe stay as they were
\* when the autoNames was made; auto.rets is the history of the calls.

GblScopes ==
    {Scope({}, <<>>),
     Scope({"x"}, <<>>),
     Scope({"x"}, <<Scope({"x1"}, <<>>)>>)}
BuiltinScopes == {Scope({"b"}, <<>>)}
RequestedNames == {"x", "x1", "y", "b", "int"}

NewAutoNames(gbl, builtin) ==
    /\ ~auto.made
    /\ auto' = [made |-> TRUE, p |-> newAutoNames(gbl, builtin), rets |-> <<>>]
    /\ UNCHANGED <<BuilderVars, inf, ovl, context>>

CallRequireName(name) ==
    /\ auto.made
    /\ Len(auto.rets) < budget
    /\ LET r == RequireName(auto.p, name)
       IN  auto' = [auto EXCEPT !.p = r.p,
                                !.rets = Append(@, [name |-> name, ret |-> r.ret, renamed |-> r.renamed])]
    /\ UNCHANGED <<BuilderVars, inf, ovl, context>>

InitNames == InitBuilder(MaxCalls)

NextNames ==
    \/ \E gbl \in GblScopes, builtin \in BuiltinScopes : NewAutoNames(gbl, builtin)
    \/ \E name \in RequestedNames : CallRequireName(name)

SpecNames == InitNames /\ [][NextNames]_vars

\* ---------------------------------------------------------------- SpecImport: InitGopPkg on one Context
\* One step of the model is one step of a call of InitGopPkg: the test and
\* the initialization on entry, or one turn of the loop over the imports.
\* The recursion is the stack of frames context.stack.

PkgPaths == {"a", "b", "c", "fmt"}

\* the import lists a package may have: up to two packages other than itself
ImportLists(p) ==
    {<<>>} \cup {<<q>> : q \in PkgPaths \ {p}}
           \cup {qr \in (PkgPaths \ {p}) \X (PkgPaths \ {p}) : qr[1] # qr[2]}

\* an import graph: any imports for the packages outside the standard
\* library, cycles included
ImportGraph(a, b, c, fmt) ==
    [p \in PkgPaths |-> IF p = "a" THEN a ELSE IF p = "b" THEN b ELSE IF p = "c" THEN c ELSE fmt]

MakeContext ==
    /\ ~context.made
    /\ \E a \in ImportLists("a"), b \in ImportLists("b"), c \in ImportLists("c"),
          fmt \in {<<>>, <<"c">>} :
            context' = NewContext(ImportGraph(a, b, c, fmt))
    /\ UNCHANGED <<BuilderVars, inf, ovl, auto>>

Running == context.made /\ context.stack # <<>> /\ ~context.panicked

\* a call p.InitGopPkg(importer, pkgImp) from outside
CallInitGopPkg(pkgPath) ==
    /\ context.made
    /\ context.stack = <<>>
    /\ ~context.panicked
    /\ context.calls < budget
    /\ context' = [context EXCEPT !.stack = <<Frame(pkgPath, "entry", 0)>>,
                                  !.calls = @ + 1,
                                  !.arg = pkgPath]
    /\ UNCHANGED <<BuilderVars, inf, ovl, auto>>

\* import.go 224-230: return at once for a package that is not to be
\* visited; otherwise initThisGopPkg returns and the package is marked
InitGopPkgEnter ==
    /\ Running
    /\ Last(context.stack).pc = "entry"
    /\ LET pkgPath == Last(context.stack).pkg
       IN  IF visited(context.chkGopImports, pkgPath)
           THEN context' = [context EXCEPT !.stack = Front(@)]
           ELSE context' = [context EXCEPT
                                !.inits = Append(@, pkgPath),
                                !.chkGopImports = @ \cup {pkgPath},
                                !.stack = Append(Front(@), Frame(pkgPath, "loop", 1))]
    /\ UNCHANGED <<BuilderVars, inf, ovl, auto>>

\* import.go 229: initThisGopPkg panics (overloadFuncs does, for one) and
\* the panic leaves every call under way
InitThisGopPkgPanics ==
    /\ Running
    /\ Last(context.stack).pc = "entry"
    /\ ~visited(context.chkGopImports, Last(context.stack).pkg)
    /\ context' = [context EXCEPT !.inits = Append(@, Last(context.stack).pkg),
                                  !.panicked = TRUE]
    /\ UNCHANGED <<BuilderVars, inf, ovl, auto>>

\* import.go 231-233: the next import is visited by a call of its own, and
\* the call returns after the last
InitGopPkgLoop ==
    /\ Running
    /\ Last(context.stack).pc = "loop"
    /\ LET f == Last(context.stack)
           imps == context.imports[f.pkg]
       IN  IF f.i <= Len(imps)
           THEN context' = [context EXCEPT
                                !.stack = Append(Append(Front(@), Frame(f.pkg, "loop", f.i + 1)),
                                                 Frame(imps[f.i], "entry", 0))]
           ELSE context' = [context EXCEPT !.stack = Front(@)]
    /\ UNCHANGED <<BuilderVars, inf, ovl, auto>>

InitImport == InitBuilder(MaxInits)

StepImport == InitGopPkgEnter \/ InitThisGopPkgPanics \/ InitGopPkgLoop

NextImport ==
    \/ MakeContext
    \/ \E pkgPath \in PkgPaths : CallInitGopPkg(pkgPath)
    \/ InitGopPkgEnter
    \/ InitThisGopPkgPanics
    \/ InitGopPkgLoop

SpecImport == InitImport /\ [][NextImport]_vars

\* a call under way takes its next step: the calls of InitGopPkg run to
\* their end once made
SpecImportFair == SpecImport /\ WF_vars(StepImport)

\* ---------------------------------------------------------------- properties of blocks

IsExit == last.op \in {"endBlockStmt", "endFuncBody"}
IsEnter == last.op \in {"startBlockStmt", "startFuncBody"}
MatchedExit == IsExit /\ last.err = "none" /\ last.matched

\* C1. Block truncation law: after the exit that matches an enter, the
\* operand stack is as deep as it was immediately before the enter, however
\* many operands were left on it inside the block.
C1_BlockTruncation == MatchedExit => Len(stk) = last.entry.depth

\* a block entered over one operand is closed with two operands dangling
C1_Witness ==
    /\ MatchedExit
    /\ last.entry.depth = 1
    /\ last.args[1] = last.entry.depth + 2
    /\ Len(stk) = 1

\* C2. The operand stack is never shorter than the base of the current
\* block: no operation consumes operands pushed before the block was entered.
C2_StackAtLeastBase == Len(stk) >= current.base

\* C5. An exit that is not the matching one (no block open, or a context
\* other than the one the innermost open enter produced) fails.
C5_UnmatchedExitFails == (IsExit /\ ~last.matched) => last.err # "none"

RECURSIVE ScopeChain(_)
ScopeChain(sc) == IF sc = Universe THEN <<>> ELSE <<sc>> \o ScopeChain(scopes[sc].parent)

\* the scopes of the open blocks, innermost first, then the package scope
OpenScopes ==
    [i \in 1..Len(entered) |-> entered[Len(entered) + 1 - i].newScope] \o <<PkgScope>>

\* C6. Scope chain mirrors block nesting: an enter creates a fresh scope
\* whose parent is the scope current at entry; the parent chain of the current
\* scope is the sequence of the scopes of the open blocks, innermost first,
\* up to the package scope; after the matching exit the current scope is
\* the one that was current before the enter.
C6_ScopeChain ==
    /\ ScopeChain(current.scope) = OpenScopes
    /\ IsEnter =>
          /\ current.scope = Len(scopes)
          /\ scopes[current.scope].parent = Last(entered).scope
          /\ \A i \in 1..Len(saved) : saved[i].ctx.scope # current.scope
    /\ MatchedExit => current.scope = last.entry.scope

\* two blocks are open, opened after an earlier block was opened and closed
C6_Witness == Len(entered) = 2 /\ Len(scopes) = 4 /\ IsEnter

Ids(stmts) == [i \in 1..Len(stmts) |-> stmts[i].id]

\* the ids of the statements emitted while the block of scope sc was current,
\* in the order they were emitted
RECURSIVE EmittedIn(_, _)
EmittedIn(sc, n) ==
    IF n = 0 THEN <<>>
    ELSE IF owner[n] = sc THEN Append(EmittedIn(sc, n - 1), n)
    ELSE EmittedIn(sc, n - 1)

\* the statement lists that exist: of the current block, of the enclosing
\* blocks, and the one the last exit returned
StmtLists == <<current.stmts, last.ret>> \o [i \in 1..Len(saved) |-> saved[i].ctx.stmts]

\* C7. Statement ownership and order: the list an exit returns holds exactly
\* the statements emitted while that block was current, in the order they
\* were emitted; the list of every open block holds exactly the statements
\* emitted in it; after a nested block exits the enclosing list is what it
\* was at the enter; no statement is in two lists, or twice in one.
C7_StatementOwnership ==
    /\ Ids(current.stmts) = EmittedIn(current.scope, Len(owner))
    /\ \A i \in 1..Len(saved) :
          Ids(saved[i].ctx.stmts) = EmittedIn(saved[i].ctx.scope, Len(owner))
    /\ MatchedExit =>
          /\ Ids(last.ret) = EmittedIn(last.entry.newScope, Len(owner))
          /\ current.stmts = last.entry.stmts
    /\ \A i, j \in 1..Len(StmtLists) :
          i # j => Range(Ids(StmtLists[i])) \cap Range(Ids(StmtLists[j])) = {}
    /\ \A i \in 1..Len(StmtLists) :
          Cardinality(Range(Ids(StmtLists[i]))) = Len(StmtLists[i])

\* a nested block that emitted two statements is closed inside a block that
\* had emitted one
C7_Witness ==
    /\ MatchedExit
    /\ Len(last.ret) = 2
    /\ Len(current.stmts) = 1
    /\ current.stmts[1].id < last.ret[1].id

\* the function of the innermost function body that is open
RECURSIVE InnermostFn(_)
InnermostFn(n) ==
    IF n = 0 THEN NoFunc
    ELSE IF entered[n].kind = "func" THEN entered[n].fn
    ELSE InnermostFn(n - 1)

TopOf(s, n) == SubSeq(s, Len(s) - n + 1, Len(s))

\* C10. Return is checked against the current function context: Return(n)
\* succeeds exactly when its n operands match the declared results of the
\* innermost function body that is open, and then appends one return
\* statement holding them; outside every function body it fails and appends
\* nothing.
C10_ReturnChecksCurrentFunction ==
    last.op = "Return" =>
        LET fn == InnermostFn(Len(entered))
            n == last.args[1]
        IN  IF fn = NoFunc
            THEN last.err # "none" /\ current.stmts = last.stmts
            ELSE /\ last.err = "none" <=>
                        /\ n <= Len(last.stk)
                        /\ checkMatchFuncResults(TopOf(last.stk, n), fn.type.results)
                 /\ last.err = "none" =>
                        /\ Len(current.stmts) = Len(last.stmts) + 1
                        /\ Front(current.stmts) = last.stmts
                        /\ Last(current.stmts).k = "ReturnStmt"
                        /\ Last(current.stmts).results =
                               [i \in 1..n |-> TopOf(last.stk, n)[i].Val]
                 /\ last.err # "none" => current.stmts = last.stmts

\* a return of one operand in the body of F, after the body of a closure
\* nested in it was opened and closed
C10_Witness ==
    /\ last.op = "Return"
    /\ last.err = "none"
    /\ last.args = <<1>>
    /\ Len(entered) = 1
    /\ entered[1].fn = outerFn
    /\ Len(scopes) = 3
    /\ scopes[3].parent = 2
    /\ scopes[3].comment = "func "

\* ---------------------------------------------------------------- properties of the operations

Failed == last.err # "none"
Succeeded == last.err = "none"

\* the operands an operation consumes and produces, by its arity contract
Consumed ==
    CASE last.op \in {"Val", "VarRef"} -> 0
      [] last.op \in {"MapLit", "SliceLit", "ArrayLit"} -> last.args[1]
      [] last.op = "MemberVal" -> 1
      [] last.op = "Assign" -> last.args[1] + last.args[2]
      [] last.op = "Call" -> last.args[1] + 1
      [] last.op = "Return" -> last.args[1]
      [] last.op = "BinaryOp" -> 2
      [] last.op = "UnaryOp" -> 1

Produced == IF last.op \in {"Assign", "Return"} THEN 0 ELSE 1

ArityOps ==
    {"Val", "VarRef", "MapLit", "SliceLit", "ArrayLit", "MemberVal", "Assign", "Call",
     "Return", "BinaryOp", "UnaryOp"}

\* C3. Stack arity law: a construction operation that succeeds changes the
\* depth of the operand stack by what it produces less what it consumes, and
\* leaves the operands below those it consumed as they were.
C3_StackArity ==
    (last.op \in ArityOps /\ Succeeded) =>
        /\ Len(stk) = Len(last.stk) - Consumed + Produced
        /\ SubSeq(stk, 1, Len(last.stk) - Consumed) = SubSeq(last.stk, 1, Len(last.stk) - Consumed)

\* a call of a function of one parameter replaces callee and argument by the result
C3_Witness ==
    /\ last.op = "Call"
    /\ last.args = <<1>>
    /\ Succeeded
    /\ Len(last.stk) = 2
    /\ Len(stk) = 1
    /\ stk[1].Type = TInt

FailingOps ==
    {"Assign", "Return", "Call", "MapLit", "SliceLit", "ArrayLit", "MemberVal", "BinaryOp",
     "UnaryOp", "EndStmt"}

\* C4. No partial emission: when a construction operation fails, the
\* statement list of the current block and the operand stack are what they
\* were before the operation.
C4_NoPartialEmission ==
    (last.op \in FailingOps /\ Failed) => (stk = last.stk /\ current.stmts = last.stmts)

\* an assignment of a string to an int variable fails over a stack of two operands
C4_Witness ==
    /\ last.op = "Assign"
    /\ last.err = "NotAssignable"
    /\ Len(stk) = 2
    /\ stk[1].Type = refType(TInt)

\* C8. Parallel assignment: Assign(k, k) over k targets followed by k
\* sources, each source assignable to its target, appends one assignment
\* whose left side holds the values of the targets and whose right side
\* holds the values of the sources, in their order, and pops the 2k
\* operands; if a pair is not assignable it fails with NotAssignable and
\* emits nothing.
C8_ParallelAssign ==
    (last.op = "Assign" /\ last.args[1] = last.args[2] /\ Len(last.stk) >= 2 * last.args[1]) =>
        LET k == last.args[1]
            a == TopOf(last.stk, 2 * k)
        IN  IF \A i \in 1..k : assignMatchType(a[i].Type, a[k + i].Type)
            THEN /\ Succeeded
                 /\ Len(current.stmts) = Len(last.stmts) + 1
                 /\ Front(current.stmts) = last.stmts
                 /\ Last(current.stmts).k = "AssignStmt"
                 /\ Last(current.stmts).lhs = [i \in 1..k |-> a[i].Val]
                 /\ Last(current.stmts).rhs = [i \in 1..k |-> a[k + i].Val]
                 /\ stk = SubSeq(last.stk, 1, Len(last.stk) - 2 * k)
            ELSE /\ last.err = "NotAssignable"
                 /\ current.stmts = last.stmts
                 /\ stk = last.stk

\* two different sources are assigned to two different targets
C8_Witness ==
    /\ last.op = "Assign"
    /\ last.args = <<2, 2>>
    /\ Succeeded
    /\ Last(current.stmts).lhs[1] # Last(current.stmts).lhs[2]
    /\ Last(current.stmts).rhs[1] # Last(current.stmts).rhs[2]

\* the single source of Assign(lhs, 1) is a tuple of lhs elements
SpreadsTo(src, lhs) == src.Type.k = "Tuple" /\ Len(src.Type.elems) = lhs

\* C9. Tuple-spread assignment and ArityMismatch: Assign(lhs, rhs) with
\* lhs # rhs succeeds only if rhs = 1 and the source is a tuple of lhs
\* elements, and then emits one assignment with lhs targets and one right
\* side; in every other case it fails with ArityMismatch.
C9_TupleSpread ==
    (last.op = "Assign" /\ last.args[1] # last.args[2]
        /\ Len(last.stk) >= last.args[1] + last.args[2]) =>
        LET lhs == last.args[1]
            rhs == last.args[2]
            spread == rhs = 1 /\ SpreadsTo(Last(last.stk), lhs)
        IN  /\ Succeeded =>
                 /\ spread
                 /\ Len(current.stmts) = Len(last.stmts) + 1
                 /\ Last(current.stmts).k = "AssignStmt"
                 /\ Len(Last(current.stmts).lhs) = lhs
                 /\ Last(current.stmts).rhs = <<Last(last.stk).Val>>
            /\ ~spread => last.err = "ArityMismatch"

\* the two results of a call are assigned to two targets
C9_Witness ==
    /\ last.op = "Assign"
    /\ last.args = <<2, 1>>
    /\ Succeeded
    /\ Last(current.stmts).rhs[1].k = "CallExpr"

\* ---------------------------------------------------------------- properties of members

\* the receiver MemberVal was applied to, and the name it was asked for
Receiver == Last(last.stk)
MemberName == last.args[1]
IsMemberVal == last.op = "MemberVal" /\ Len(last.stk) >= 1

\* the type a receiver is looked up in: its own, or the pointee of a pointer
Stripped(t) == IF t.k = "Pointer" THEN t.elem ELSE t

HasMethod(o, name) == \E i \in 1..Len(o.methods) : o.methods[i].name = name
MethodType(o, name) ==
    LET m == o.methods[CHOOSE i \in 1..Len(o.methods) : o.methods[i].name = name].type
    IN  Signature(NilType, m.params, m.results, m.variadic)
HasField(st, name) == \E i \in 1..Len(st.fields) : st.fields[i].name = name
FieldType(st, name) ==
    st.fields[CHOOSE i \in 1..Len(st.fields) : st.fields[i].name = name].type

\* the member operand that replaced the receiver has type t
ResolvedTo(t) ==
    /\ Succeeded
    /\ Len(stk) = Len(last.stk)
    /\ Front(stk) = Front(last.stk)
    /\ Last(stk) = Elem(SelectorExpr(Receiver.Val, MemberName), t)

\* C11. Member resolution precedence: on a receiver of a named type (or a
\* pointer to one), MemberVal(m) yields the method m, typed as its
\* signature without receiver, whenever the type has a method m, also when
\* the underlying struct has a field m; a field is the result only when
\* there is no method of that name.
C11_MethodBeforeField ==
    (IsMemberVal /\ Stripped(Receiver.Type).k = "Named") =>
        LET o == Stripped(Receiver.Type)
        IN  /\ HasMethod(o, MemberName) => ResolvedTo(MethodType(o, MemberName))
            /\ (Succeeded /\ ~HasMethod(o, MemberName)) =>
                   /\ o.underlying.k = "Struct"
                   /\ HasField(o.underlying, MemberName)
                   /\ ResolvedTo(FieldType(o.underlying, MemberName))

\* the name m, both a method and a field of the receiver's type, gave the method
C11_Witness ==
    /\ IsMemberVal
    /\ Stripped(Receiver.Type).k = "Named"
    /\ HasMethod(Stripped(Receiver.Type), MemberName)
    /\ HasField(Stripped(Receiver.Type).underlying, MemberName)
    /\ Succeeded
    /\ Last(stk).Type.k = "Signature"
    /\ Last(stk).Type.recv = NilType

\* what looking name up in the type o (not a pointer) gives: [found, type]
Lookup(o, name) ==
    IF o.k = "Named" /\ HasMethod(o, name) THEN [found |-> TRUE, type |-> MethodType(o, name)]
    ELSE IF o.k = "Named" /\ o.underlying.k = "Struct" /\ HasField(o.underlying, name)
    THEN [found |-> TRUE, type |-> FieldType(o.underlying, name)]
    ELSE IF o.k = "Struct" /\ HasField(o, name)
    THEN [found |-> TRUE, type |-> FieldType(o, name)]
    ELSE [found |-> FALSE, type |-> NilType]

MemberNotFound == last.err = "MemberNotFound" /\ stk = last.stk

\* C12. Single auto-dereference: a receiver that is a pointer to a named or
\* struct type resolves as its pointee does; a receiver that after the
\* stripping of one pointer is neither named nor struct (two levels of
\* pointer among them) fails with MemberNotFound and stays on the stack.
C12_SingleDereference ==
    IsMemberVal =>
        LET t == Receiver.Type
            o == Stripped(t)
        IN  /\ (t.k = "Pointer" /\ o.k \in {"Named", "Struct"}) =>
                   IF Lookup(o, MemberName).found
                   THEN ResolvedTo(Lookup(o, MemberName).type)
                   ELSE MemberNotFound
            /\ o.k \notin {"Named", "Struct"} => MemberNotFound

\* a member of the named type is asked of a pointer to a pointer to it
C12_Witness ==
    /\ IsMemberVal
    /\ Receiver.Type = Pointer(Pointer(TNamed))
    /\ HasMethod(TNamed, MemberName)
    /\ MemberNotFound
    /\ Last(stk) = Receiver

\* ---------------------------------------------------------------- properties of operators

IsOperator == last.op \in {"BinaryOp", "UnaryOp"}
OperatorArity == IF last.op = "BinaryOp" THEN 2 ELSE 1
IsOperatorOn == IsOperator /\ Len(last.stk) >= OperatorArity

\* the name the fixed mapping gives the token ("" when it gives none)
OperatorName == IF last.op = "BinaryOp" THEN binaryOps(last.args[1]) ELSE unaryOps(last.args[1])
Registered == OperatorName # "" /\ LookupOperator(OperatorName).found

\* C13. OperatorNotSupported: BinaryOp and UnaryOp, given any token for
\* which no callable with the operator's name is registered in the builtin
\* scope (tokens outside the operator mapping among them), fail with
\* OperatorNotSupported and leave the operands on the stack.
C13_OperatorNotSupported ==
    (IsOperatorOn /\ ~Registered) => (last.err = "OperatorNotSupported" /\ stk = last.stk)

\* the stack Call would be applied to: the callable under the operands
CallStack ==
    SubSeq(last.stk, 1, Len(last.stk) - OperatorArity)
        \o <<LookupOperator(OperatorName).obj>>
        \o TopOf(last.stk, OperatorArity)

\* C14. Operators reuse the Call path: with the operator's callable f
\* registered, BinaryOp on [.., a, b] ends as Call(2) on [.., f, a, b] does,
\* and UnaryOp on [.., a] as Call(1) on [.., f, a]: the same failure, or the
\* same stack with the same result operand.
C14_OperatorsAsCall ==
    (IsOperatorOn /\ Registered) =>
        LET c == CallOn(CallStack, OperatorArity, FALSE)
        IN  /\ last.err = c.err
            /\ c.err = "none" => stk = c.stk
            /\ c.err # "none" => stk = last.stk

\* the sum of two operands is the call of Gop_Add on them, below another operand
C14_Witness ==
    /\ last.op = "BinaryOp"
    /\ Len(last.stk) = 3
    /\ Registered
    /\ Succeeded
    /\ Len(stk) = 2
    /\ Last(stk).Val.k = "CallExpr"
    /\ Last(stk).Type = TInt

\* ---------------------------------------------------------------- properties of Defer and Go

\* C15. Defer and Go fail whenever they are called, whatever the operand
\* stack holds and whatever blocks are open, and the failure leaves the
\* operand stack and the current block context with its statements as
\* they were.
C15_DeferGoFail ==
    [][last'.op \in {"Defer", "Go"} =>
           /\ last'.err # "none"
           /\ stk' = stk
           /\ current' = current]_vars

\* Defer fails over an operand inside the body of a function
C15_Witness ==
    /\ last.op = "Defer"
    /\ Failed
    /\ Len(stk) = 1
    /\ current.fn = outerFn
    /\ current.base = 0

\* ---------------------------------------------------------------- properties of literals

IsLit == last.op \in {"MapLit", "SliceLit", "ArrayLit"}
LitArity == last.args[1]
LitType == last.args[2]
LitOperands == TopOf(last.stk, LitArity)

\* one operand more on the stack, a composite literal of type t
PushedLit(t) ==
    /\ Succeeded
    /\ stk = Append(last.stk, Elem(CompositeLit(t, <<>>), t))

\* C16 as the specification states it. Default empty literal: MapLit, SliceLit and ArrayLit with no
\* operands and no explicit type succeed and push one composite operand
\* whose key type (for a map) and element type are the empty interface.
C16_DefaultEmptyLiteral ==
    (IsLit /\ LitArity = 0 /\ LitType = NilType) =>
        /\ Succeeded
        /\ Len(stk) = Len(last.stk) + 1
        /\ Front(stk) = last.stk
        /\ Last(stk).Val.k = "CompositeLit"
        /\ Last(stk).Type.elem = TyEmptyInterface
        /\ last.op = "MapLit" => Last(stk).Type = MapType(TyEmptyInterface, TyEmptyInterface)
        /\ last.op = "SliceLit" => Last(stk).Type = SliceType(TyEmptyInterface)
        /\ last.op = "ArrayLit" => Last(stk).Type.k = "Array"

\* C16, as the code has it. Default empty literal: with no operands and no
\* explicit type, MapLit pushes one empty literal of the map type with
\* string keys and empty-interface values and SliceLit one of the slice of
\* the empty interface; ArrayLit has no default type: without an explicit
\* type it fails and pushes nothing.
C16_DefaultEmptyLiteralOfCode ==
    (IsLit /\ LitArity = 0 /\ LitType = NilType) =>
        /\ last.op = "MapLit" => PushedLit(MapType(TString, TyEmptyInterface))
        /\ last.op = "SliceLit" => PushedLit(SliceType(TyEmptyInterface))
        /\ last.op = "ArrayLit" => (last.err = "NilDereference" /\ stk = last.stk)

\* the default map literal, with string keys, is pushed over another operand
C16_Witness ==
    /\ last.op = "MapLit"
    /\ LitArity = 0
    /\ LitType = NilType
    /\ Len(last.stk) = 1
    /\ PushedLit(MapType(TString, TyEmptyInterface))

\* the operands replaced by one slice literal of element type t holding their values
SliceOf(t) ==
    /\ Succeeded
    /\ stk = Append(SubSeq(last.stk, 1, Len(last.stk) - LitArity),
                    Elem(CompositeLit(SliceType(t), [i \in 1..LitArity |-> LitOperands[i].Val]),
                         SliceType(t)))

UntypedNumeric == {TUntypedInt, TUntypedFloat}

ExpectedAt(i) ==
    IF last.op = "MapLit" /\ i % 2 = 1 THEN LitType.key ELSE LitType.elem

\* the literal is one the operation gets as far as checking the operands of
CheckedLit ==
    /\ IsLit
    /\ LitType # NilType
    /\ LitArity > 0
    /\ Len(last.stk) >= LitArity
    /\ last.op = "MapLit" => LitArity % 2 = 0
    /\ last.op = "ArrayLit" => (LitType.len < 0 \/ LitArity <= LitType.len)

\* C18. Explicit-type literals are fully checked: MapLit, SliceLit and
\* ArrayLit with an explicit type and n > 0 succeed only if every operand
\* is assignable to the key or element type expected at its position;
\* otherwise they fail with NotAssignable, the n operands stay on the stack
\* and no composite operand is pushed.
C18_ExplicitTypeChecked ==
    CheckedLit =>
        IF \A i \in 1..LitArity : AssignableTo(LitOperands[i].Type, ExpectedAt(i))
        THEN /\ Succeeded
             /\ Len(stk) = Len(last.stk) - LitArity + 1
             /\ Last(stk).Type = LitType
        ELSE /\ last.err = "NotAssignable"
             /\ stk = last.stk

\* only the last of the operands of the literal is not assignable
C18_Witness ==
    /\ CheckedLit
    /\ LitArity >= 2
    /\ \A i \in 1..(LitArity - 1) : AssignableTo(LitOperands[i].Type, ExpectedAt(i))
    /\ ~AssignableTo(LitOperands[LitArity].Type, ExpectedAt(LitArity))
    /\ last.err = "NotAssignable"
    /\ stk = last.stk

\* ---------------------------------------------------------------- properties of inference

\* C19. Generic inference failure propagation: when the oracle gave at
\* least one diagnostic, in the error record or through the error callback
\* of the session, infer returns an error whose message is not empty and is
\* the text of the first diagnostic; it returns no error only when the
\* oracle gave none.
C19_InferPropagates ==
    inf.pc = "done" =>
        IF inf.diags = <<>>
        THEN inf.err = NoError
        ELSE inf.err = Errorf(inf.diags[1]) /\ inf.diags[1] # ""

\* ---------------------------------------------------------------- properties of EndStmt

\* the operands above the base of the current block when EndStmt was called
Dangling == Len(last.stk) - current.base

\* C20. EndStmt closes an expression statement: with d operands above the
\* base of the current block, it does nothing when d = 0, pops the operand
\* and appends one expression statement holding its value when d = 1, and
\* fails without popping or appending when d > 1; after a successful
\* EndStmt (d >= 0) the stack is as long as the base of the block.
C20_EndStmt ==
    (last.op = "EndStmt" /\ Dangling >= 0) =>
        /\ Dangling = 0 => (Succeeded /\ stk = last.stk /\ current.stmts = last.stmts)
        /\ Dangling = 1 =>
               /\ Succeeded
               /\ stk = Front(last.stk)
               /\ Front(current.stmts) = last.stmts
               /\ Len(current.stmts) = Len(last.stmts) + 1
               /\ Last(current.stmts).k = "ExprStmt"
               /\ Last(current.stmts).x = Last(last.stk).Val
        /\ Dangling > 1 => (Failed /\ stk = last.stk /\ current.stmts = last.stmts)
        /\ Succeeded => Len(stk) = current.base

\* inside a block entered over one operand, the one operand above it is made a statement
C20_Witness ==
    /\ last.op = "EndStmt"
    /\ current.base = 1
    /\ Dangling = 1
    /\ Succeeded
    /\ Len(stk) = 1
    /\ Len(current.stmts) = 1
    /\ Last(current.stmts).k = "ExprStmt"

\* ---------------------------------------------------------------- properties of overloadFuncs

\* the characters an index may be written with, and the index each stands for
AllIndexChars == Digits \o Letters
IndexValue(c) == PlaceIn(AllIndexChars, c) - 1

\* the index character of item i of the call
IndexCharOf(i) == ovl.items[i].name[ovl.off + 1]

\* every item carries an index below the number of items, and no two the same
WellIndexed ==
    LET n == Len(ovl.items)
    IN  /\ \A i \in 1..n : IndexValue(IndexCharOf(i)) \in 0..(n - 1)
        /\ \A i, j \in 1..n : i # j => IndexCharOf(i) # IndexCharOf(j)

\* C21. overloadFuncs is a total reordering or a failure: it fails when an
\* index character is outside [0-9a-z], an index is not below the number n
\* of items or two items have the same index; otherwise it returns n slots,
\* none empty, with every item in the slot of its index: the items ordered
\* by index, whatever their order in the input.
C21_OverloadFuncsReorders ==
    ovl.pc = "done" =>
        LET n == Len(ovl.items)
        IN  IF WellIndexed
            THEN /\ ovl.err = "none"
                 /\ Len(ovl.fns) = n
                 /\ \A i \in 1..n : ovl.fns[IndexValue(IndexCharOf(i)) + 1] = ovl.items[i]
                 /\ \A j \in 1..n : ovl.fns[j] # NilObject
                 /\ \A j \in 1..n : \E i \in 1..n : ovl.fns[j] = ovl.items[i]
            ELSE ovl.err # "none"

\* three items given in the order of the indices 2, 0, 1 come back in the order 0, 1, 2
C21_Witness ==
    /\ ovl.pc = "done"
    /\ Len(ovl.items) = 3
    /\ <<IndexCharOf(1), IndexCharOf(2), IndexCharOf(3)>> = <<"2", "0", "1">>
    /\ ovl.err = "none"
    /\ ovl.fns = <<ovl.items[2], ovl.items[3], ovl.items[1]>>

\* ---------------------------------------------------------------- properties of RequireName

\* the name is in the package scope, the builtin scope or the universe
InScopes(name) ==
    \/ scopeHasName(auto.p.gbl, name)
    \/ ScopeLookup(auto.p.builtin, name)
    \/ ScopeLookup(UniverseScope, name)

\* C22. RequireName hands out unique names: over any sequence of calls on
\* one autoNames, with the scopes unchanged, every returned name is absent
\* from the package, builtin and universe scopes, no two calls return the
\* same name, and renamed is true exactly when the returned name differs
\* from the requested one.
C22_RequireNameUnique ==
    auto.made =>
        /\ \A i \in 1..Len(auto.rets) : ~InScopes(auto.rets[i].ret)
        /\ \A i, j \in 1..Len(auto.rets) : i # j => auto.rets[i].ret # auto.rets[j].ret
        /\ \A i \in 1..Len(auto.rets) : auto.rets[i].renamed <=> (auto.rets[i].ret # auto.rets[i].name)

\* the part of C22 the code keeps: returned names are absent from the
\* scopes, and renamed tells whether the name was changed
RequireNameFresh ==
    auto.made =>
        /\ \A i \in 1..Len(auto.rets) : ~InScopes(auto.rets[i].ret)
        /\ \A i \in 1..Len(auto.rets) : auto.rets[i].renamed <=> (auto.rets[i].ret # auto.rets[i].name)

\* "x" is taken in the package scope: RequireName("x") returns "x1", and
\* RequireName("x1") after it returns "x1" again
RequireNameTwice ==
    /\ auto.made
    /\ Len(auto.rets) = 2
    /\ auto.rets[1] = [name |-> "x", ret |-> "x1", renamed |-> TRUE]
    /\ auto.rets[2] = [name |-> "x1", ret |-> "x1", renamed |-> FALSE]

\* ---------------------------------------------------------------- properties of InitGopPkg

\* the packages outside the standard library that n or fewer imports lead
\* to from the package p, through packages outside the standard library
RECURSIVE ReachWithin(_, _)
ReachWithin(p, n) ==
    IF stdpkg(p) THEN {}
    ELSE IF n = 0 THEN {p}
    ELSE {p} \cup UNION {ReachWithin(context.imports[p][i], n - 1) : i \in 1..Len(context.imports[p])}

Reachable(p) == ReachWithin(p, Cardinality(PkgPaths))

Initialized == {context.inits[i] : i \in 1..Len(context.inits)}

\* the call made last from outside has returned
Returned == context.made /\ context.calls > 0 /\ context.stack = <<>> /\ ~context.panicked

InitGopPkgOnce ==
    context.made =>
        /\ \A i, j \in 1..Len(context.inits) : i # j => context.inits[i] # context.inits[j]
        /\ \A i \in 1..Len(context.inits) : ~stdpkg(context.inits[i])
        /\ Returned => Reachable(context.arg) \subseteq Initialized

====
